---- MODULE Spec2Model ----
(***************************************************************************)
(* migrate_component.py: a command-line tool that rewrites one of two      *)
(* component files from the legacy useApp() hook to specialised hooks by   *)
(* an ordered list of literal and regular-expression substitutions.        *)
(*                                                                         *)
(* Text is a sequence of lexical tokens.  A token is a single white-space  *)
(* character, a single punctuation character, a quoted string 'x', an      *)
(* identifier, or an identifier immediately followed by ':'.  Every        *)
(* literal piece of the script's patterns falls on token borders, so a     *)
(* pattern matches a text exactly when its token form matches the token    *)
(* sequence.                                                               *)
(***************************************************************************)
EXTENDS Integers, Sequences, FiniteSets, TLC

\* ------------------------------------------------------------------ bounds
\* number of fragments a file's initial contents are assembled from
MaxFrags == 2
\* number of times the tool is invoked in a row on the same file system
MaxRuns == 2

\* ------------------------------------------------------------ token classes
WS == {" ", "\n"}

Punct == {"(", ")", "{", "}", ",", ";", "=", "."}

Quoted ==
  {"'../context/AppContext'", "'../context/SessionsContext'", "'../context/UIContext'",
   "'../context/SettingsContext'", "'../context/EntitiesContext'", "'../context/NotesContext'",
   "'../context/TasksContext'", "'feat'",
   "'MARK_FEATURE_INTRODUCED'", "'ADD_NOTIFICATION'", "'START_SESSION'", "'END_SESSION'",
   "'PAUSE_SESSION'", "'RESUME_SESSION'", "'UPDATE_SESSION'", "'DELETE_SESSION'",
   "'ADD_SESSION_SCREENSHOT'", "'ADD_SESSION_AUDIO_SEGMENT'", "'ADD_PROCESSING_JOB'",
   "'ADD_TOPIC'", "'ADD_NOTE'", "'UPDATE_NOTE'", "'ADD_TASK'", "'TOGGLE_QUICK_CAPTURE'",
   "'SET_ACTIVE_TAB'"}

\* an identifier with the ':' that follows it
Labels == {"type:", "payload:", "state:", "dispatch:"}

\* \w at the first / last character of a token
StartsWord(t) == t \notin WS \cup Punct \cup Quoted
EndsWord(t) == StartsWord(t) /\ t \notin Labels

IsIdent(t) == EndsWord(t)

\* \b : the position before s[p] (p in 1..Len(s)+1) is a word boundary
Boundary(s, p) ==
  LET left == p > 1 /\ EndsWord(s[p - 1])
      right == p <= Len(s) /\ StartsWord(s[p])
  IN left # right

\* ------------------------------------------------------- regular expressions
\* A pattern is a sequence of elements:
\*   lit   the token t
\*   ws*   \s*        ws+   \s+        b   \b
\*   grp   ([^}]+)    obj   ({[^}]+})  str '([^']+)'
Lit(t) == [k |-> "lit", t |-> t]
WsStar == [k |-> "ws*", t |-> ""]
WsPlus == [k |-> "ws+", t |-> ""]
WordB == [k |-> "b", t |-> ""]
Grp == [k |-> "grp", t |-> ""]
Obj == [k |-> "obj", t |-> ""]
Str == [k |-> "str", t |-> ""]

Lits(ts) == [i \in DOMAIN ts |-> Lit(ts[i])]

NoMatch == [ok |-> FALSE, end |-> 0, g |-> <<>>]

\* the number of consecutive tokens from s[p] on that the class accepts
RunLen(s, p, class) ==
  LET In(t) == IF class = "ws" THEN t \in WS ELSE t # "}"
  IN CHOOSE n \in 0..(Len(s) + 1 - p) :
       /\ \A i \in p..(p + n - 1) : In(s[i])
       /\ (p + n > Len(s) \/ ~In(s[p + n]))

RECURSIVE MatchFrom(_, _, _, _)
RECURSIVE TryRun(_, _, _, _, _, _)

\* Greedy repetition with backtracking: consume n tokens at p, then the rest
\* of the pattern; on failure give one token back, down to lo tokens.
TryRun(re, k, s, p, n, lo) ==
  LET Then(r) ==
        IF r.ok
        THEN IF re[k].k = "grp" THEN [r EXCEPT !.g = SubSeq(s, p, p + n - 1)] ELSE r
        ELSE TryRun(re, k, s, p, n - 1, lo)
  IN IF n < lo THEN NoMatch ELSE Then(MatchFrom(re, k + 1, s, p + n))

\* re.match of elements k.. of the pattern at position p of s: whether it
\* matches, the position after the match, and the text of group 1
MatchFrom(re, k, s, p) ==
  IF k > Len(re) THEN [ok |-> TRUE, end |-> p, g |-> <<>>]
  ELSE LET e == re[k] IN
    CASE e.k = "lit" ->
           IF p <= Len(s) /\ s[p] = e.t THEN MatchFrom(re, k + 1, s, p + 1) ELSE NoMatch
      [] e.k = "b" ->
           IF Boundary(s, p) THEN MatchFrom(re, k + 1, s, p) ELSE NoMatch
      [] e.k = "ws*" -> TryRun(re, k, s, p, RunLen(s, p, "ws"), 0)
      [] e.k = "ws+" -> TryRun(re, k, s, p, RunLen(s, p, "ws"), 1)
      [] e.k = "grp" -> TryRun(re, k, s, p, RunLen(s, p, "notbrace"), 1)
      [] e.k = "obj" ->
           \* '{', one or more non-'}' characters, '}': the run must reach the
           \* first '}' after the opening brace
           IF p <= Len(s) /\ s[p] = "{"
           THEN LET n == RunLen(s, p + 1, "notbrace")
                    r == MatchFrom(re, k + 1, s, p + n + 2)
                IN IF n >= 1 /\ p + n + 1 <= Len(s) /\ r.ok
                   THEN [r EXCEPT !.g = SubSeq(s, p, p + n + 1)]
                   ELSE NoMatch
           ELSE NoMatch
      [] e.k = "str" ->
           \* a quoted string; group 1 is kept with its quotes, which the
           \* replacement '\1' puts back
           IF p <= Len(s) /\ s[p] \in Quoted
           THEN LET r == MatchFrom(re, k + 1, s, p + 1)
                IN IF r.ok THEN [r EXCEPT !.g = <<s[p]>>] ELSE NoMatch
           ELSE NoMatch


\* the marker of group 1 in a replacement template
G1 == "\\1"

\* a replacement template with every \1 replaced by the text of group 1
RECURSIVE Expand(_, _)
Expand(repl, g) ==
  LET marks == {i \in DOMAIN repl : repl[i] = G1}
  IN IF marks = {} THEN repl
     ELSE LET i == CHOOSE j \in marks : \A l \in marks : j <= l
          IN SubSeq(repl, 1, i - 1) \o g \o Expand(SubSeq(repl, i + 1, Len(repl)), g)

\* the token a match of the pattern starts with: every pattern of the script
\* begins with a literal, or with \b and a literal
FirstLit(re) == IF re[1].k = "b" THEN re[2].t ELSE re[1].t

\* the starts of the matches of the pattern at or after position p; only a
\* position that holds the pattern's first literal can start a match
MatchStarts(re, s, p) ==
  LET At(t) == {q \in p..Len(s) : s[q] = t /\ MatchFrom(re, 1, s, q).ok}
  IN At(FirstLit(re))

\* re.search: the pattern matches somewhere in s
HasMatch(re, s) == MatchStarts(re, s, 1) # {}

\* the least element of a non-empty set of positions
Least(S) == CHOOSE j \in S : \A l \in S : j <= l

\* The scan of re.sub from position p: the text up to the leftmost match is
\* copied, the match is replaced, and the scan goes on after the match.
RECURSIVE SubFrom(_, _, _, _)
SubFrom(re, repl, s, p) ==
  LET Replace(m, q) ==
        SubSeq(s, p, q - 1) \o Expand(repl, m.g) \o SubFrom(re, repl, s, m.end)
      Scan(starts) ==
        IF starts = {} THEN SubSeq(s, p, Len(s))
        ELSE Replace(MatchFrom(re, 1, s, Least(starts)), Least(starts))
  IN Scan(MatchStarts(re, s, p))

\* re.sub(pattern, repl, s, count=1): only the leftmost match is replaced
ReSubFirst(re, repl, s) ==
  LET First(starts) ==
        IF starts = {} THEN s
        ELSE SubSeq(s, 1, Least(starts) - 1)
             \o Expand(repl, MatchFrom(re, 1, s, Least(starts)).g)
             \o SubSeq(s, MatchFrom(re, 1, s, Least(starts)).end, Len(s))
  IN First(MatchStarts(re, s, 1))

\* re.sub(pattern, repl, s) and str.replace: every non-overlapping match,
\* leftmost first, is replaced
ReSub(re, repl, s) == SubFrom(re, repl, s, 1)

\* A list of (pattern, replacement) rules applied one after the other, as
\* "for pattern, replacement in rules: content = re.sub(pattern, replacement,
\* content)" does: the resulting text, and the rules that found a match.
RECURSIVE RunRules(_, _, _)
RunRules(rules, s, fired) ==
  IF rules = <<>> THEN [text |-> s, fired |-> fired]
  ELSE LET r == Head(rules)
       IN IF HasMatch(r.re, s)
          THEN RunRules(Tail(rules), ReSub(r.re, r.repl, s), fired \cup {r})
          ELSE RunRules(Tail(rules), s, fired)

ApplyRules(rules, s) == RunRules(rules, s, {}).text

FiredRules(rules, s) == RunRules(rules, s, {}).fired

Rule(re, repl) == [re |-> re, repl |-> repl]

\* ------------------------------------------------- the script's substitutions
LegacyImport ==
  <<"import", " ", "{", " ", "useApp", " ", "}", " ", "from", " ", "'../context/AppContext'", ";">>

\* const\s+{\s*state,\s*dispatch\s*}\s*=\s*useApp\(\);
DestructureRe ==
  <<Lit("const"), WsPlus, Lit("{"), WsStar, Lit("state"), Lit(","), WsStar, Lit("dispatch"),
    WsStar, Lit("}"), WsStar, Lit("="), WsStar, Lit("useApp"), Lit("("), Lit(")"), Lit(";")>>

SessionsImports ==
  <<"import", " ", "{", " ", "useSessions", " ", "}", " ", "from", " ", "'../context/SessionsContext'", ";", "\n",
    "import", " ", "{", " ", "useUI", " ", "}", " ", "from", " ", "'../context/UIContext'", ";">>

SessionsHookBlock ==
  <<"const", " ", "{", " ", "sessions", ",", " ", "activeSessionId", ",", " ", "startSession", ",", " ",
    "endSession", ",", " ", "pauseSession", ",", " ", "resumeSession", ",", " ", "updateSession", ",", " ",
    "deleteSession", ",", " ", "addScreenshot", ",", " ", "addAudioSegment", " ", "}", " ", "=", " ",
    "useSessions", "(", ")", ";", "\n", " ", " ",
    "const", " ", "{", " ", "state:", " ", "uiState", ",", " ", "dispatch:", " ", "uiDispatch", ",", " ",
    "addNotification", " ", "}", " ", "=", " ", "useUI", "(", ")", ";">>

CaptureImports ==
  <<"import", " ", "{", " ", "useSettings", " ", "}", " ", "from", " ", "'../context/SettingsContext'", ";", "\n",
    "import", " ", "{", " ", "useUI", " ", "}", " ", "from", " ", "'../context/UIContext'", ";", "\n",
    "import", " ", "{", " ", "useEntities", " ", "}", " ", "from", " ", "'../context/EntitiesContext'", ";", "\n",
    "import", " ", "{", " ", "useNotes", " ", "}", " ", "from", " ", "'../context/NotesContext'", ";", "\n",
    "import", " ", "{", " ", "useTasks", " ", "}", " ", "from", " ", "'../context/TasksContext'", ";", "\n",
    "import", " ", "{", " ", "useSessions", " ", "}", " ", "from", " ", "'../context/SessionsContext'", ";">>

CaptureHookBlock ==
  <<"const", " ", "{", " ", "state:", " ", "settingsState", " ", "}", " ", "=", " ", "useSettings", "(", ")", ";",
    "\n", " ", " ",
    "const", " ", "{", " ", "state:", " ", "uiState", ",", " ", "dispatch:", " ", "uiDispatch", ",", " ",
    "addNotification", ",", " ", "addProcessingJob", " ", "}", " ", "=", " ", "useUI", "(", ")", ";",
    "\n", " ", " ",
    "const", " ", "{", " ", "state:", " ", "entitiesState", ",", " ", "addTopic", " ", "}", " ", "=", " ",
    "useEntities", "(", ")", ";", "\n", " ", " ",
    "const", " ", "{", " ", "addNote", ",", " ", "updateNote", " ", "}", " ", "=", " ", "useNotes", "(", ")", ";",
    "\n", " ", " ",
    "const", " ", "{", " ", "addTask", " ", "}", " ", "=", " ", "useTasks", "(", ")", ";", "\n", " ", " ",
    "const", " ", "{", " ", "sessions", " ", "}", " ", "=", " ", "useSessions", "(", ")", ";">>

\* \bstate\.<field>\b
StateField(field) == <<WordB, Lit("state"), Lit("."), Lit(field), WordB>>
\* \bstate\.ui\.
StateUi == <<WordB, Lit("state"), Lit("."), Lit("ui"), Lit(".")>>

SessionsStateReplacements ==
  <<Rule(StateField("sessions"), <<"sessions">>),
    Rule(StateField("activeSessionId"), <<"activeSessionId">>),
    Rule(StateUi, <<"uiState", ".">>),
    Rule(StateField("onboarding"), <<"uiState", ".", "onboarding">>)>>

CaptureStateReplacements ==
  <<Rule(StateField("aiSettings"), <<"settingsState", ".", "aiSettings">>),
    Rule(StateField("userProfile"), <<"settingsState", ".", "userProfile">>),
    Rule(StateField("nedSettings"), <<"settingsState", ".", "nedSettings">>),
    Rule(StateUi, <<"uiState", ".">>),
    Rule(StateField("quickCaptureOpen"), <<"uiState", ".", "quickCaptureOpen">>),
    Rule(StateField("companies"), <<"entitiesState", ".", "companies">>),
    Rule(StateField("contacts"), <<"entitiesState", ".", "contacts">>),
    Rule(StateField("topics"), <<"entitiesState", ".", "topics">>),
    Rule(StateField("notes"), <<"notesState", ".", "notes">>),
    Rule(StateField("tasks"), <<"tasksState", ".", "tasks">>),
    Rule(StateField("sessions"), <<"sessions">>)>>

\* dispatch\(\{\s*type:\s*'<type>',\s*payload:\s*
DispatchHead(type) ==
  <<Lit("dispatch"), Lit("("), Lit("{"), WsStar, Lit("type:"), WsStar, Lit(type), Lit(","),
    WsStar, Lit("payload:"), WsStar>>

\* ...([^}]+)\}\);
DispatchAny(type) == DispatchHead(type) \o <<Grp, Lit("}"), Lit(")"), Lit(";")>>
\* ...({[^}]+})\s*\}\);
DispatchObjWs(type) == DispatchHead(type) \o <<Obj, WsStar, Lit("}"), Lit(")"), Lit(";")>>
\* ...({[^}]+})\}\);
DispatchObj(type) == DispatchHead(type) \o <<Obj, Lit("}"), Lit(")"), Lit(";")>>
\* ...'([^']+)'\s*\}\);
DispatchStr(type) == DispatchHead(type) \o <<Str, WsStar, Lit("}"), Lit(")"), Lit(";")>>
\* dispatch\(\{\s*type:\s*'<type>'\s*\}\);
DispatchBare(type) ==
  <<Lit("dispatch"), Lit("("), Lit("{"), WsStar, Lit("type:"), WsStar, Lit(type), WsStar,
    Lit("}"), Lit(")"), Lit(";")>>

\* <name>(\1);
Call(name) == <<name, "(", G1, ")", ";">>
\* <name>(\1.sessionId, \1);
CallWithSessionId(name) == <<name, "(", G1, ".", "sessionId", ",", " ", G1, ")", ";">>

SessionsUiDispatch ==
  <<Rule(DispatchStr("'MARK_FEATURE_INTRODUCED'"),
         <<"uiDispatch", "(", "{", " ", "type:", " ", "'MARK_FEATURE_INTRODUCED'", ",", " ",
           "payload:", " ", G1, " ", "}", ")", ";">>),
    Rule(DispatchObjWs("'ADD_NOTIFICATION'"), Call("addNotification"))>>

session_action_patterns ==
  <<Rule(DispatchAny("'START_SESSION'"), Call("startSession")),
    Rule(DispatchAny("'END_SESSION'"), Call("endSession")),
    Rule(DispatchAny("'PAUSE_SESSION'"), Call("pauseSession")),
    Rule(DispatchAny("'RESUME_SESSION'"), Call("resumeSession")),
    Rule(DispatchAny("'UPDATE_SESSION'"), Call("updateSession")),
    Rule(DispatchAny("'DELETE_SESSION'"), Call("deleteSession")),
    Rule(DispatchObj("'ADD_SESSION_SCREENSHOT'"), CallWithSessionId("addScreenshot")),
    Rule(DispatchObj("'ADD_SESSION_AUDIO_SEGMENT'"), CallWithSessionId("addAudioSegment"))>>

ui_patterns ==
  <<Rule(DispatchBare("'TOGGLE_QUICK_CAPTURE'"),
         <<"uiDispatch", "(", "{", " ", "type:", " ", "'TOGGLE_QUICK_CAPTURE'", " ", "}", ")", ";">>),
    Rule(DispatchAny("'SET_ACTIVE_TAB'"),
         <<"uiDispatch", "(", "{", " ", "type:", " ", "'SET_ACTIVE_TAB'", ",", " ", "payload:", " ",
           G1, " ", "}", ")", ";">>)>>

CaptureDispatch ==
  <<Rule(DispatchObjWs("'ADD_NOTIFICATION'"), Call("addNotification")),
    Rule(DispatchObjWs("'ADD_PROCESSING_JOB'"), Call("addProcessingJob")),
    Rule(DispatchAny("'ADD_TOPIC'"), Call("addTopic")),
    Rule(DispatchAny("'ADD_NOTE'"), Call("addNote")),
    Rule(DispatchAny("'UPDATE_NOTE'"), Call("updateNote")),
    Rule(DispatchAny("'ADD_TASK'"), Call("addTask"))>> \o ui_patterns

\* ------------------------------------------------------- the two migrations
Migrations == {"migrate_sessions_zone", "migrate_capture_zone"}

ImportRule(fn) ==
  Rule(Lits(LegacyImport),
       IF fn = "migrate_sessions_zone" THEN SessionsImports ELSE CaptureImports)

HookBlock(fn) == IF fn = "migrate_sessions_zone" THEN SessionsHookBlock ELSE CaptureHookBlock

\* the destructuring replaced as a literal in its usual layout only
DestructureRuleLiteral(fn) ==
  Rule(Lits(<<"const", " ", "{", " ", "state", ",", " ", "dispatch", " ", "}", " ", "=", " ",
              "useApp", "(", ")", ";">>),
       HookBlock(fn))

DestructureRule(fn) == Rule(DestructureRe, HookBlock(fn))

StateRules(fn) ==
  IF fn = "migrate_sessions_zone" THEN SessionsStateReplacements ELSE CaptureStateReplacements

DispatchRules(fn) ==
  IF fn = "migrate_sessions_zone" THEN SessionsUiDispatch \o session_action_patterns
  ELSE CaptureDispatch

\* the identifier a replacement starts with
Introduces(rule) == Head(rule.repl)

\* the names a hook block binds: the identifiers inside its braces
BoundNames(block) ==
  {block[i] : i \in {j \in DOMAIN block :
      /\ IsIdent(block[j])
      /\ \E o \in 1..(j - 1) : block[o] = "{" /\ \A c \in o..j : block[c] # "}"}}

\* ---------------------------------------------------------------- the inputs
\* pieces of component source the initial file contents are assembled from
Fragments ==
  { LegacyImport,
    <<"const", " ", "{", " ", "state", ",", " ", "dispatch", " ", "}", " ", "=", " ", "useApp", "(", ")", ";">>,
    <<"const", "\n", "{", "state", ",", "dispatch", "}", "=", "useApp", "(", ")", ";">>,
    <<"state", ".">>,
    <<"state", ".", "sessions">>,
    <<"state", ".", "notes">>,
    <<"state", ".", "ui", ".", "tab">>,
    <<"dispatch", "(", "{", " ", "type:", " ", "'ADD_NOTE'", ",", " ", "payload:", " ", "noteObj", " ", "}", ")", ";">>,
    <<"dispatch", "(", "{", " ", "type:", " ", "'START_SESSION'", ",", " ", "payload:", " ", "{", " ", "id", " ", "}", " ", "}", ")", ";">>,
    <<"dispatch", "(", "{", " ", "type:", " ", "'START_SESSION'", ",", " ", "payload:", " ", "session", "}", ")", ";">>,
    <<"dispatch", "(", "{", " ", "type:", " ", "'ADD_SESSION_SCREENSHOT'", ",", " ", "payload:", " ", "{", "shot", "}", "}", ")", ";">>,
    <<"dispatch", "(", "{", " ", "type:", " ", "'MARK_FEATURE_INTRODUCED'", ",", " ", "payload:", " ", "'feat'", " ", "}", ")", ";">>,
    <<"x">> }

RECURSIVE Texts(_)
Texts(n) ==
  IF n = 0 THEN {<<>>}
  ELSE Texts(n - 1) \cup {t \o f : t \in Texts(n - 1), f \in Fragments}

\* ----------------------------------------------------------------- the state
base_path == "/Users/jamesmcarthur/Documents/taskerino/src/components"

SessionsPath == <<base_path, "SessionsZone.tsx">>
CapturePath == <<base_path, "CaptureZone.tsx">>
Files == {SessionsPath, CapturePath}
NoPath == <<>>

\* the command lines: no argument, a supported name, another name
Args == {<<>>, <<"SessionsZone">>, <<"CaptureZone">>, <<"NotesZone">>}

\* a file is readable and writable, read-only, write-only, or absent
Perms == {"rw", "r", "w", "missing"}

Running == -1

VARIABLES
  argv,        \* sys.argv[1:]
  fs,          \* the contents of the two component files
  perm,        \* what the process may do with each file
  pc,          \* the position of the process
  fn,          \* the migration function that was called, or "none"
  file_path,   \* its argument
  content,     \* its text buffer
  stdout,      \* the lines printed
  exitCode,    \* the exit status, Running until the process ends
  opened,      \* the open() calls made: path, mode, whether it succeeded
  steps,       \* the steps of the migration performed so far, in order
  matched,     \* the steps whose pattern found a match
  introduced,  \* the identifiers the replacements made so far start with
  readText,    \* the text read from the file
  fs0,         \* the file contents when the process started
  prevExit,    \* the exit status of the previous invocation
  run          \* the number of this invocation

vars == <<argv, fs, perm, pc, fn, file_path, content, stdout, exitCode, opened, steps,
          matched, introduced, readText, fs0, prevExit, run>>

Init ==
  /\ argv \in Args
  /\ \E t \in Texts(MaxFrags) : fs = [f \in Files |-> t]
  /\ \E p \in Perms : perm = [f \in Files |-> p]
  /\ pc = "main"
  /\ fn = "none"
  /\ file_path = NoPath
  /\ content = <<>>
  /\ stdout = <<>>
  /\ exitCode = Running
  /\ opened = <<>>
  /\ steps = <<>>
  /\ matched = {}
  /\ introduced = {}
  /\ readText = <<>>
  /\ fs0 = fs
  /\ prevExit = Running
  /\ run = 1

\* ------------------------------------------------------------------ __main__
\* an unknown name is taken for the first component
MainUnknownAsSessions ==
  /\ pc = "main"
  /\ IF Len(argv) < 1
     THEN /\ stdout' = stdout \o <<<<"Usage: python3 migrate_component.py <component_name>">>,
                                   <<"Example: python3 migrate_component.py SessionsZone">>>>
          /\ exitCode' = 1
          /\ pc' = "exit"
          /\ UNCHANGED <<fn, file_path>>
     ELSE LET component == argv[1] IN
          IF component # "CaptureZone"
          THEN /\ fn' = "migrate_sessions_zone"
               /\ file_path' = SessionsPath
               /\ pc' = "read"
               /\ UNCHANGED <<stdout, exitCode>>
          ELSE /\ fn' = "migrate_capture_zone"
               /\ file_path' = CapturePath
               /\ pc' = "read"
               /\ UNCHANGED <<stdout, exitCode>>
  /\ UNCHANGED <<argv, fs, perm, content, opened, steps, matched, introduced, readText, fs0,
                 prevExit, run>>

\* a missing argument defaults to the first component
MainNoArgDefault ==
  /\ pc = "main"
  /\ IF Len(argv) < 1
     THEN /\ fn' = "migrate_sessions_zone"
          /\ file_path' = SessionsPath
          /\ pc' = "read"
          /\ UNCHANGED <<stdout, exitCode>>
     ELSE LET component == argv[1] IN
          IF component = "SessionsZone"
          THEN /\ fn' = "migrate_sessions_zone"
               /\ file_path' = SessionsPath
               /\ pc' = "read"
               /\ UNCHANGED <<stdout, exitCode>>
          ELSE IF component = "CaptureZone"
          THEN /\ fn' = "migrate_capture_zone"
               /\ file_path' = CapturePath
               /\ pc' = "read"
               /\ UNCHANGED <<stdout, exitCode>>
          ELSE /\ stdout' = stdout \o <<<<"Unknown component: ", component>>,
                                        <<"Supported components: SessionsZone, CaptureZone">>>>
               /\ exitCode' = 1
               /\ pc' = "exit"
               /\ UNCHANGED <<fn, file_path>>
  /\ UNCHANGED <<argv, fs, perm, content, opened, steps, matched, introduced, readText, fs0,
                 prevExit, run>>

Main ==
  /\ pc = "main"
  /\ IF Len(argv) < 1
     THEN /\ stdout' = stdout \o <<<<"Usage: python3 migrate_component.py <component_name>">>,
                                   <<"Example: python3 migrate_component.py SessionsZone">>>>
          /\ exitCode' = 1
          /\ pc' = "exit"
          /\ UNCHANGED <<fn, file_path>>
     ELSE LET component == argv[1] IN
          IF component = "SessionsZone"
          THEN /\ fn' = "migrate_sessions_zone"
               /\ file_path' = SessionsPath
               /\ pc' = "read"
               /\ UNCHANGED <<stdout, exitCode>>
          ELSE IF component = "CaptureZone"
          THEN /\ fn' = "migrate_capture_zone"
               /\ file_path' = CapturePath
               /\ pc' = "read"
               /\ UNCHANGED <<stdout, exitCode>>
          ELSE /\ stdout' = stdout \o <<<<"Unknown component: ", component>>,
                                        <<"Supported components: SessionsZone, CaptureZone">>>>
               /\ exitCode' = 1
               /\ pc' = "exit"
               /\ UNCHANGED <<fn, file_path>>
  /\ UNCHANGED <<argv, fs, perm, content, opened, steps, matched, introduced, readText, fs0,
                 prevExit, run>>

\* ------------------------------------------------------ migrate_*_zone steps
\* a failed read is swallowed and the migration goes on with an empty buffer
ReadFileIgnoresError ==
  /\ pc = "read"
  /\ IF perm[file_path] \in {"w", "missing"}
     THEN /\ opened' = Append(opened, [path |-> file_path, mode |-> "r", ok |-> FALSE])
          /\ content' = <<>>
          /\ readText' = <<>>
          /\ steps' = Append(steps, "read")
          /\ pc' = "import"
          /\ UNCHANGED exitCode
     ELSE /\ opened' = Append(opened, [path |-> file_path, mode |-> "r", ok |-> TRUE])
          /\ content' = fs[file_path]
          /\ readText' = fs[file_path]
          /\ steps' = Append(steps, "read")
          /\ pc' = "import"
          /\ UNCHANGED exitCode
  /\ UNCHANGED <<argv, fs, perm, fn, file_path, stdout, matched, introduced, fs0, prevExit, run>>

\* with open(file_path, 'r') as f: content = f.read()
\* An open() that raises ends the process with the traceback and status 1.
ReadFile ==
  /\ pc = "read"
  /\ IF perm[file_path] \in {"w", "missing"}
     THEN /\ opened' = Append(opened, [path |-> file_path, mode |-> "r", ok |-> FALSE])
          /\ exitCode' = 1
          /\ pc' = "exit"
          /\ UNCHANGED <<content, readText, steps>>
     ELSE /\ opened' = Append(opened, [path |-> file_path, mode |-> "r", ok |-> TRUE])
          /\ content' = fs[file_path]
          /\ readText' = fs[file_path]
          /\ steps' = Append(steps, "read")
          /\ pc' = "import"
          /\ UNCHANGED exitCode
  /\ UNCHANGED <<argv, fs, perm, fn, file_path, stdout, matched, introduced, fs0, prevExit, run>>

\* Step 1: content.replace(<legacy import>, <new imports>)
StepImport ==
  /\ pc = "import"
  /\ content' = ReSub(ImportRule(fn).re, ImportRule(fn).repl, content)
  /\ matched' = IF HasMatch(ImportRule(fn).re, content) THEN matched \cup {"import"} ELSE matched
  /\ steps' = Append(steps, "import")
  /\ pc' = "destructure"
  /\ UNCHANGED <<argv, fs, perm, fn, file_path, stdout, exitCode, opened, introduced, readText,
                 fs0, prevExit, run>>

\* Step 2: re.sub(<hook destructuring>, <hook block>, content)
StepDestructure ==
  /\ pc = "destructure"
  /\ content' = ReSub(DestructureRule(fn).re, DestructureRule(fn).repl, content)
  /\ matched' = IF HasMatch(DestructureRule(fn).re, content)
                THEN matched \cup {"destructure"} ELSE matched
  /\ steps' = Append(steps, "destructure")
  /\ pc' = "stateRefs"
  /\ UNCHANGED <<argv, fs, perm, fn, file_path, stdout, exitCode, opened, introduced, readText,
                 fs0, prevExit, run>>

\* Step 3: for pattern, replacement in replacements: content = re.sub(...)
StepStateRefs ==
  /\ pc = "stateRefs"
  /\ \E res \in {RunRules(StateRules(fn), content, {})} :
       /\ content' = res.text
       /\ matched' = IF res.fired # {} THEN matched \cup {"stateRefs"} ELSE matched
       /\ introduced' = introduced \cup {Introduces(r) : r \in res.fired}
  /\ steps' = Append(steps, "stateRefs")
  /\ pc' = "dispatch"
  /\ UNCHANGED <<argv, fs, perm, fn, file_path, stdout, exitCode, opened, readText, fs0,
                 prevExit, run>>

\* the success message is printed before the file is written
StepDispatchPrintsEarly ==
  /\ pc = "dispatch"
  /\ \E res \in {RunRules(DispatchRules(fn), content, {})} :
       /\ content' = res.text
       /\ matched' = IF res.fired # {} THEN matched \cup {"dispatch"} ELSE matched
       /\ introduced' = introduced \cup {Introduces(r) : r \in res.fired}
  /\ steps' = Append(steps, "dispatch")
  /\ pc' = "write"
  /\ stdout' = Append(stdout, <<"Migrated ">> \o file_path)
  /\ UNCHANGED <<argv, fs, perm, fn, file_path, exitCode, opened, readText, fs0,
                 prevExit, run>>

\* Steps 4 and 5: the dispatch substitutions, in the order of the source
StepDispatch ==
  /\ pc = "dispatch"
  /\ \E res \in {RunRules(DispatchRules(fn), content, {})} :
       /\ content' = res.text
       /\ matched' = IF res.fired # {} THEN matched \cup {"dispatch"} ELSE matched
       /\ introduced' = introduced \cup {Introduces(r) : r \in res.fired}
  /\ steps' = Append(steps, "dispatch")
  /\ pc' = "write"
  /\ UNCHANGED <<argv, fs, perm, fn, file_path, stdout, exitCode, opened, readText, fs0,
                 prevExit, run>>

\* the buffer is written with a newline added at its end
WriteFileAddsNewline ==
  /\ pc = "write"
  /\ IF perm[file_path] = "r"
     THEN /\ opened' = Append(opened, [path |-> file_path, mode |-> "w", ok |-> FALSE])
          /\ exitCode' = 1
          /\ pc' = "exit"
          /\ UNCHANGED <<fs, steps>>
     ELSE /\ opened' = Append(opened, [path |-> file_path, mode |-> "w", ok |-> TRUE])
          /\ \E ioError \in BOOLEAN :
               IF ioError
               THEN /\ fs' = [fs EXCEPT ![file_path] = <<>>]
                    /\ exitCode' = 1
                    /\ pc' = "exit"
                    /\ UNCHANGED steps
               ELSE /\ fs' = [fs EXCEPT ![file_path] = Append(content, "\n")]
                    /\ steps' = Append(steps, "write")
                    /\ pc' = "print"
                    /\ UNCHANGED exitCode
  /\ UNCHANGED <<argv, perm, fn, file_path, content, stdout, matched, introduced, readText,
                 fs0, prevExit, run>>

\* with open(file_path, 'w') as f: f.write(content)
\* open() raises on a read-only file; once it has succeeded the
\* file is truncated, and an I/O error while the buffer is flushed leaves it
\* empty.  Either exception ends the process with status 1.
WriteFile ==
  /\ pc = "write"
  /\ IF perm[file_path] = "r"
     THEN /\ opened' = Append(opened, [path |-> file_path, mode |-> "w", ok |-> FALSE])
          /\ exitCode' = 1
          /\ pc' = "exit"
          /\ UNCHANGED <<fs, steps>>
     ELSE /\ opened' = Append(opened, [path |-> file_path, mode |-> "w", ok |-> TRUE])
          /\ \E ioError \in BOOLEAN :
               IF ioError
               THEN /\ fs' = [fs EXCEPT ![file_path] = <<>>]
                    /\ exitCode' = 1
                    /\ pc' = "exit"
                    /\ UNCHANGED steps
               ELSE /\ fs' = [fs EXCEPT ![file_path] = content]
                    /\ steps' = Append(steps, "write")
                    /\ pc' = "print"
                    /\ UNCHANGED exitCode
  /\ UNCHANGED <<argv, perm, fn, file_path, content, stdout, matched, introduced, readText,
                 fs0, prevExit, run>>

\* print(f"... Migrated {file_path}"), after which the process ends normally
PrintSuccess ==
  /\ pc = "print"
  /\ stdout' = Append(stdout, <<"Migrated ">> \o file_path)
  /\ steps' = Append(steps, "print")
  /\ exitCode' = 0
  /\ pc' = "done"
  /\ UNCHANGED <<argv, fs, perm, fn, file_path, content, opened, matched, introduced, readText,
                 fs0, prevExit, run>>

\* After a successful run the tool is started again with the same command
\* line on the files that run left behind.
Invoke ==
  /\ pc = "done"
  /\ run < MaxRuns
  /\ run' = run + 1
  /\ prevExit' = exitCode
  /\ fs0' = fs
  /\ pc' = "main"
  /\ fn' = "none"
  /\ file_path' = NoPath
  /\ content' = <<>>
  /\ stdout' = <<>>
  /\ exitCode' = Running
  /\ opened' = <<>>
  /\ steps' = <<>>
  /\ matched' = {}
  /\ introduced' = {}
  /\ readText' = <<>>
  /\ UNCHANGED <<argv, fs, perm>>

Next ==
  \/ Main
  \/ ReadFile
  \/ StepImport
  \/ StepDestructure
  \/ StepStateRefs
  \/ StepDispatch
  \/ WriteFile
  \/ PrintSuccess
  \/ Invoke

Spec == Init /\ [][Next]_vars

\* ------------------------------------------------------------- the properties
Supported == {"SessionsZone", "CaptureZone"}

\* the success message has been printed
Printed == \E i \in DOMAIN stdout : stdout[i][1] = "Migrated "

\* the file was opened, or an attempt was made to open it, for writing
OpenedForWriting == \E i \in DOMAIN opened : opened[i].mode = "w"

ReadFailed == \E i \in DOMAIN opened : opened[i].mode = "r" /\ ~opened[i].ok

\* text s contains the token sequence sub
Contains(s, sub) == \E i \in 1..(Len(s) - Len(sub) + 1) : SubSeq(s, i, i + Len(sub) - 1) = sub

IsPrefix(a, b) == Len(a) <= Len(b) /\ SubSeq(b, 1, Len(a)) = a

\* the migration has written its result
Written == pc \in {"print", "done"}

\* C1: invoked with a component name other than SessionsZone or CaptureZone,
\* the process exits with a non-zero status, no file is opened for writing and
\* neither component file changes.
C1_UnknownComponent ==
  (Len(argv) >= 1 /\ argv[1] \notin Supported /\ pc # "main")
    => /\ pc = "exit"
       /\ exitCode = 1
       /\ ~OpenedForWriting
       /\ fs = fs0

C1_Witness ==
  /\ argv = <<"NotesZone">>
  /\ pc = "exit"
  /\ exitCode = 1
  /\ HasMatch(DestructureRe, fs[SessionsPath])
  /\ fs = fs0

\* C2: after a run of either migration the written file contains no occurrence
\* of the legacy destructuring, in any of the layouts the pattern accepts.
C2_NoLegacyDestructuring ==
  Written => ~HasMatch(DestructureRe, fs[file_path])

C2_Witness ==
  /\ pc = "done"
  /\ run = 1
  /\ HasMatch(DestructureRe, readText)
  /\ Contains(readText, <<"const", "\n", "{", "state">>)
  /\ ~HasMatch(DestructureRe, fs[file_path])

\* this invocation runs on the file a successful earlier run produced
SecondRun == run >= 2 /\ prevExit = 0

\* C3 as stated: a second run on the result of a first run matches none of
\* the import, destructuring, state-reference or dispatch patterns and writes
\* back exactly the text it read.
C3_SecondRunIsNoOp ==
  (SecondRun /\ pc = "done") => (matched = {} /\ fs[file_path] = readText)

\* C3 as amended: a second run on the result of a first run matches neither
\* the import nor the destructuring pattern, and its import and destructuring
\* steps leave the text as the first run wrote it.
C3_SecondRunKeepsHooks ==
  (SecondRun /\ pc \in {"stateRefs", "dispatch", "write", "print", "done"})
    => /\ matched \cap {"import", "destructure"} = {}
       /\ (pc = "stateRefs" => content = readText)

C3_Witness ==
  /\ SecondRun
  /\ pc = "done"
  /\ Contains(readText, SessionsImports)
  /\ Contains(readText, SessionsHookBlock)
  /\ fs[file_path] = readText

\* C4: for a file holding the single call
\* dispatch({ type: 'ADD_NOTE', payload: noteObj }); the migrated output
\* contains exactly addNote(noteObj);
C4_AddNotePayload ==
  ( /\ fn = "migrate_capture_zone"
    /\ Written
    /\ readText = <<"dispatch", "(", "{", " ", "type:", " ", "'ADD_NOTE'", ",", " ", "payload:",
                    " ", "noteObj", " ", "}", ")", ";">> )
    => Contains(fs[file_path], <<"addNote", "(", "noteObj", ")", ";">>)

\* C5: without an argument the tool prints the usage and exits with a
\* non-zero status without opening a file; the function that runs and the
\* file it touches are fixed by the component name, and no other file is
\* touched.
C5_ArgumentDispatch ==
  /\ (Len(argv) = 0 /\ pc # "main")
       => /\ pc = "exit"
          /\ exitCode = 1
          /\ opened = <<>>
          /\ fs = fs0
          /\ stdout = <<<<"Usage: python3 migrate_component.py <component_name>">>,
                        <<"Example: python3 migrate_component.py SessionsZone">>>>
  /\ (Len(argv) >= 1 /\ argv[1] = "SessionsZone" /\ pc # "main")
       => (fn = "migrate_sessions_zone" /\ file_path = SessionsPath)
  /\ (Len(argv) >= 1 /\ argv[1] = "CaptureZone" /\ pc # "main")
       => (fn = "migrate_capture_zone" /\ file_path = CapturePath)
  /\ fn # "none" => (Len(argv) >= 1 /\ argv[1] \in Supported)
  /\ \A i \in DOMAIN opened : opened[i].path = file_path
  /\ \A f \in Files : f # file_path => fs[f] = fs0[f]

C5_Witness ==
  /\ argv = <<>>
  /\ pc = "exit"
  /\ exitCode = 1
  /\ Len(stdout) = 2
  /\ fs[SessionsPath] # <<>>

StepOrder == <<"read", "import", "destructure", "stateRefs", "dispatch", "write", "print">>

\* C6: a migration reads the file, replaces the import, then the
\* destructuring, then the state references, then the dispatch calls, then
\* writes to the path it read and then prints the success message; the
\* message is never printed before the write is complete.
C6_StepOrder ==
  /\ IsPrefix(steps, StepOrder)
  /\ \A i \in DOMAIN opened : opened[i].path = file_path
  /\ Printed =>
       /\ steps = StepOrder
       /\ opened = <<[path |-> file_path, mode |-> "r", ok |-> TRUE],
                     [path |-> file_path, mode |-> "w", ok |-> TRUE]>>
       /\ fs[file_path] = content
  /\ (pc = "write" \/ Written) =>
       content = ApplyRules(DispatchRules(fn),
                   ApplyRules(StateRules(fn),
                     ReSub(DestructureRule(fn).re, DestructureRule(fn).repl,
                       ReSub(ImportRule(fn).re, ImportRule(fn).repl, readText))))

C6_Witness ==
  /\ pc = "done"
  /\ Printed
  /\ {"import", "destructure"} \subseteq matched
  /\ steps = StepOrder
  /\ fs[file_path] = content

\* C7: when the file cannot be read the migration aborts: the file is never
\* opened for writing, the files are unchanged and no success message is
\* printed; a failing write also ends the run without the success message.
C7_IoFailureAborts ==
  /\ ReadFailed =>
       /\ pc = "exit"
       /\ exitCode = 1
       /\ ~OpenedForWriting
       /\ fs = fs0
       /\ ~Printed
  /\ (pc = "exit" /\ fn # "none") => (exitCode = 1 /\ ~Printed)

C7_Witness ==
  /\ ReadFailed
  /\ pc = "exit"
  /\ perm[file_path] = "w"
  /\ fs[file_path] # <<>>

SessionActions ==
  {"'START_SESSION'", "'END_SESSION'", "'PAUSE_SESSION'", "'RESUME_SESSION'", "'UPDATE_SESSION'",
   "'DELETE_SESSION'", "'ADD_SESSION_SCREENSHOT'", "'ADD_SESSION_AUDIO_SEGMENT'"}

\* C8: after migrate_sessions_zone no dispatch({ type: '<ACTION>', payload:
\* ... }); of a session action is left in the output, whatever the payload.
C8_SessionDispatchReplaced ==
  (fn = "migrate_sessions_zone" /\ Written)
    => \A a \in SessionActions : ~HasMatch(DispatchHead(a), fs[file_path])

\* C9: every identifier the state-reference and dispatch replacements of a
\* migration introduce is bound by the hook block that migration inserts.
C9_IntroducedNamesBound ==
  fn # "none" => introduced \subseteq BoundNames(HookBlock(fn))

\* no pattern of the migration matches the text
NoLegacy(f, s) ==
  /\ ~HasMatch(ImportRule(f).re, s)
  /\ ~HasMatch(DestructureRule(f).re, s)
  /\ \A i \in DOMAIN StateRules(f) : ~HasMatch(StateRules(f)[i].re, s)
  /\ \A i \in DOMAIN DispatchRules(f) : ~HasMatch(DispatchRules(f)[i].re, s)

\* C10: a migration changes only text one of its patterns matches: a file
\* with no legacy import, destructuring, listed state reference or listed
\* dispatch call is written back as it was read; migrate_sessions_zone
\* leaves dispatch calls of types it does not list as they are.
C10_Frame ==
  (Written /\ NoLegacy(fn, readText)) => fs[file_path] = readText

C10_Witness ==
  /\ fn = "migrate_sessions_zone"
  /\ pc = "done"
  /\ HasMatch(DispatchAny("'ADD_NOTE'"), readText)
  /\ NoLegacy(fn, readText)
  /\ fs[file_path] = readText
====
